---- MODULE Spec2Model ----
(***************************************************************************)
(* AN-032 multi device power streaming example                             *)
(* (QisMultiDeviceStreamingExample.py).                                    *)
(*                                                                         *)
(* The main thread (main, simple_multi_stream_example,                     *)
(* multi_device_live_monitoring_example), the polling thread               *)
(* (read_and_print_last_values) and, per device, the stream started by     *)
(* startStream, which writes text into the io.StringIO it was handed.      *)
(* Text is kept as strings; a StringIO is its text and its position.       *)
(***************************************************************************)
EXTENDS Naturals, Sequences, FiniteSets, TLC

(* ------------------------------ bounds -------------------------------- *)

\* How many entries of the hard-coded device list are used.
NumDevices == 2

\* How many write() calls all streams together make on the buffers.
MaxWrites == 2

\* How many characters of a line a stream writes when it writes a line in
\* two pieces.
CutLen == 1

(* --------------------------- program constants ------------------------ *)

AllDeviceIDs ==
    << "TCP:QTL2789-01-001",
       "TCP:QTL2789-01-002",
       "TCP:QTL2582-01-005",
       "TCP:QTL2582-01-006",
       "TCP:QTL2843-03-002",
       "TCP:QTL2751-02-002",
       "TCP:QTL2751-01-001" >>

myDeviceIDs == SubSeq(AllDeviceIDs, 1, NumDevices)

Devices == 1..Len(myDeviceIDs)

\* What a Python variable holds here: a string, or None.
Str(s) == [str |-> s]

None == [none |-> TRUE]

Threads == {"main", "poll"}

(* ------------------------------ strings ------------------------------- *)

Char(s, k) == SubSeq(s, k, k)

From(s, k) == SubSeq(s, k, Len(s))

StartsWith(s, p) == Len(s) >= Len(p) /\ SubSeq(s, 1, Len(p)) = p

\* sub in s
Contains(s, sub) == \E k \in 1..(Len(s) + 1) : StartsWith(From(s, k), sub)

\* str.replace(old, ""): every non-overlapping occurrence, left to right.
RECURSIVE Remove(_, _)
Remove(s, old) ==
    IF s = "" THEN ""
    ELSE IF StartsWith(s, old) THEN Remove(From(s, Len(old) + 1), old)
    ELSE Char(s, 1) \o Remove(From(s, 2), old)

\* The module name cut at its first dash: the product number alone.
get_device_id_product(device_id) ==
    LET name == Remove(device_id, "TCP:")
    IN  SubSeq(name, 1, 7)

get_device_id(device_id) == Remove(device_id, "TCP:")

WhiteSpace == {" ", "\n", "\t", "\r"}

Min(S) == CHOOSE x \in S : \A y \in S : x <= y

Max(S) == CHOOSE x \in S : \A y \in S : x >= y

\* The n-th smallest member of a set of numbers.
Nth(S, n) == CHOOSE k \in S : Cardinality({m \in S : m < k}) = n - 1

\* Where s holds character c.
Places(s, c) == {k \in 1..Len(s) : Char(s, k) = c}

\* The member of a set of one member: The({ e : x \in {v} }) is e with
\* the local variable x holding v.
The(S) == CHOOSE r \in S : TRUE

\* str.strip(): from the first to the last character that is no white space.
Strip(s) ==
    The({ IF kept = {} THEN "" ELSE SubSeq(s, Min(kept), Max(kept)) :
            kept \in {{k \in 1..Len(s) : Char(s, k) \notin WhiteSpace}} })

\* The pieces of s that the places in ends close; a piece holds its closing
\* character when keep is TRUE.
Pieces(s, ends, keep) ==
    The({ [n \in 1..Cardinality(at) |->
              SubSeq(s,
                     IF n = 1 THEN 1 ELSE Nth(at, n - 1) + 1,
                     IF keep THEN Nth(at, n) ELSE Nth(at, n) - 1)] :
            at \in {ends} })

\* str.split(','): one field more than there are commas; "" gives <<"">>.
Split(s) == The({ Pieces(t, Places(t, ","), FALSE) : t \in {s \o ","} })

\* The lines of text s, each with its line end kept; a last line without a
\* line end is a line too.
SplitLines(s) ==
    The({ Pieces(t,
                 Places(t, "\n") \cup
                    (IF t # "" /\ Char(t, Len(t)) # "\n" THEN {Len(t)} ELSE {}),
                 TRUE) :
            t \in {s} })

(* ------------------------------ StringIO ------------------------------ *)

StringIO == [buf |-> "", pos |-> 0]

seek(io, p) == [io EXCEPT !.pos = p]

\* readlines(): the lines from the position to the end.
readlines(io) == SplitLines(From(io.buf, io.pos + 1))

getvalue(io) == io.buf

\* write(s): s replaces the text at the position and extends it at the end.
write(io, s) ==
    [buf |-> SubSeq(io.buf, 1, io.pos) \o s \o From(io.buf, io.pos + Len(s) + 1),
     pos |-> io.pos + Len(s)]

(* --------------------------- the stream text -------------------------- *)

\* Column headers of the stream text; the second column has no header.
Headers == << "L1_RMS mV", "", "L1_RMS mA" >>

\* The channels read_and_print_last_values asks for.
Channels == << "L1_RMS mV", "L1_RMS mA", "Tot_PApp mVA" >>

RECURSIVE Join(_)
Join(fields) ==
    IF Len(fields) = 1 THEN fields[1]
    ELSE fields[1] \o "," \o Join(Tail(fields))

HeaderLine == Join(Headers) \o "\n"

\* The fields of row r of the stream of example ex (1: the simple example,
\* 2: the live example). No two rows share a field.
RowFields(ex, r) ==
    LET k == ((r - 1) % 4) + 1
    IN  IF ex = 1
        THEN << Char("1234", k), Char("wxyz", k), Char("abcd", k) >>
        ELSE << Char("5678", k), Char("WXYZ", k), Char("pqrs", k) >>

RowLine(ex, r) == Join(RowFields(ex, r)) \o "\n"

\* The line a stream writes after n lines: the header, then the rows.
StreamLine(ex, n) == IF n = 0 THEN HeaderLine ELSE RowLine(ex, n)

\* What streamRunningStatus may answer.
StatusStrings ==
    { "Running",
      "Stopped: User",
      "Stopped: Overrun",
      "Stopped: User after Overrun",
      "Stopped: Error" }

(* ------------------------------- state -------------------------------- *)

VARIABLES
    pc,                   \* the statement the main thread is at
    idx,                  \* the main thread's loop variable i (from 1)
    qisRunning,           \* whether the QIS service runs
    closeQisAtEndOfTest,
    myPowerDevices,       \* the quarchPPM objects: resampling and stream
    csv_data_io,          \* one StringIO per connected device
    writes,               \* write() calls made by the streams so far
    last_values,          \* channel name -> last cached field
    stream_running,
    thread,               \* the statement the polling thread is at
    psdPc, psdI, psdLines,\* process_stream_data in each thread: statement, i, lines
    stream_status,        \* check_stream_status's local
    console,              \* what the last printing step printed
    files,                \* file name -> text
    calls,                \* the calls the main thread has made, in order
    cachedEver            \* history: what the cache steps have stored

vars == << pc, idx, qisRunning, closeQisAtEndOfTest, myPowerDevices,
           csv_data_io, writes, last_values, stream_running, thread,
           psdPc, psdI, psdLines, stream_status, console, files, calls,
           cachedEver >>

EmptyDict == [k \in {} |-> ""]

\* A quarchPPM as connected: no resampling set, no stream.
quarchPPM ==
    [resample |-> "", streaming |-> FALSE, inMemoryData |-> 0, example |-> 0,
     written |-> 0, pending |-> ""]

Init ==
    /\ pc = "isQisRunning"
    /\ idx = 1
    /\ qisRunning \in BOOLEAN
    /\ closeQisAtEndOfTest = FALSE
    /\ myPowerDevices = << >>
    /\ csv_data_io = << >>
    /\ writes = 0
    /\ last_values = EmptyDict
    /\ stream_running = FALSE
    /\ thread = "unstarted"
    /\ psdPc = [t \in Threads |-> "idle"]
    /\ psdI = [t \in Threads |-> 1]
    /\ psdLines = [t \in Threads |-> << >>]
    /\ stream_status = None
    /\ console = << >>
    /\ files = EmptyDict
    /\ calls = << >>
    /\ cachedEver = EmptyDict

Call(fn, ex, i) == calls' = Append(calls, << fn, ex, i >>)

\* The loop "for i in range(len(myDeviceIDs))": the next round or the
\* statement after the loop.
NextRound(again, after) ==
    IF idx < Len(myDeviceIDs)
    THEN pc' = again /\ idx' = idx + 1
    ELSE pc' = after /\ idx' = 1

(* ------------------------- the quarchPPM calls ------------------------ *)

streamResampleMode(ppm, mode) == [ppm EXCEPT !.resample = mode]

\* startStream(inMemoryData=io, ...): a stream of example ex that writes
\* into buffer io, the header first.
startStream(ppm, io, ex) ==
    [ppm EXCEPT !.streaming = TRUE, !.inMemoryData = io, !.example = ex,
                !.written = 0, !.pending = ""]

\* stopStream(): the stream ends; a line it had begun is completed first.
stopStream(ppm) == [ppm EXCEPT !.streaming = FALSE, !.pending = ""]

\* The buffers after the stream of ppm wrote text.
Written(ppm, text) ==
    IF text = "" THEN csv_data_io
    ELSE [csv_data_io EXCEPT ![ppm.inMemoryData] = write(@, text)]

(* ----------------------------- the helpers ---------------------------- *)

\* get_device_id(myDeviceIDs[i]) for each i.
DeviceName == [i \in Devices |-> get_device_id(myDeviceIDs[i])]

\* f'{get_device_id(myDeviceIDs[i])} {header}'
ChannelName(i, header) == DeviceName[i] \o " " \o header

DictSet(d, k, v) == [x \in DOMAIN d \cup {k} |-> IF x = k THEN v ELSE d[x]]

\* The loop over the headers in process_stream_data: the dictionary it
\* leaves, and whether last_line[j] raised IndexError. The loop stores the
\* columns with a header up to the first one last_line lacks; of two
\* columns with one header the later one is stored last.
CacheColumns(d, i, headers, last_line) ==
    LET named == {j \in 1..Len(headers) : headers[j] # ""}
        lacking == {j \in named : j > Len(last_line)}
        stored == {j \in named : \A m \in lacking : j < m}
        names == {ChannelName(i, headers[j]) : j \in stored}
    IN  [values |->
            [x \in DOMAIN d \cup names |->
                IF x \in names
                THEN last_line[Max({j \in stored : ChannelName(i, headers[j]) = x})]
                ELSE d[x]],
         raised |-> lacking # {}]

\* The body of process_stream_data's loop for buffer i once lines is read.
CacheLastLine(d, i, lines) ==
    IF lines = << >> THEN [values |-> d, raised |-> FALSE]
    ELSE The({ CacheColumns(d, i, headers, last_line) :
                 headers \in {Split(Strip(lines[1]))},
                 last_line \in {Split(Strip(lines[Len(lines)]))} })

\* last_values.get(channel_name, "")
get_last_value_default_empty(d, channel_name) ==
    IF channel_name \in DOMAIN d THEN Str(d[channel_name]) ELSE Str("")

get_last_value(d, channel_name) ==
    IF channel_name \in DOMAIN d THEN Str(d[channel_name]) ELSE None

\* Python's truth of a cached value or None.
Truthy(v) == v # None /\ v # Str("")

\* str(v) of a cached value or None, as an f-string prints it.
Format(v) == IF v = None THEN "None" ELSE v.str

\* The line read_and_print_last_values prints for device i, "" when the
\* three values are all None or empty.
PrintedLine(d, i) ==
    LET l1_rms_voltage == get_last_value(d, ChannelName(i, Channels[1]))
        l1_rms_current == get_last_value(d, ChannelName(i, Channels[2]))
        l1_p_app == get_last_value(d, ChannelName(i, Channels[3]))
    IN  IF Truthy(l1_rms_voltage) \/ Truthy(l1_rms_current) \/ Truthy(l1_p_app)
        THEN DeviceName[i] \o " L1 RMS Voltage: " \o Format(l1_rms_voltage)
                \o ", L1 RMS Current: " \o Format(l1_rms_current)
                \o ", Total Apparent Power: " \o Format(l1_p_app)
        ELSE ""

\* What one round of read_and_print_last_values prints.
PrintedValues(d) == [i \in Devices |-> PrintedLine(d, i)] \o << "\n" >>

\* The branches with "User" tested before "Overrun".
check_stream_status_user_first(status) ==
    IF Contains(status, "Stopped")
    THEN IF Contains(status, "User")
         THEN "Stream Stopped"
         ELSE IF Contains(status, "Overrun")
         THEN "Stream interrupted due to internal device buffer filling up"
         ELSE "Stopped for unknown reason"
    ELSE "Stream ran correctly"

\* The line check_stream_status prints for a status string.
check_stream_status(status) ==
    IF Contains(status, "Stopped")
    THEN IF Contains(status, "Overrun")
         THEN "Stream interrupted due to internal device buffer filling up"
         ELSE IF Contains(status, "User")
         THEN "Stream Stopped"
         ELSE "Stopped for unknown reason"
    ELSE "Stream ran correctly"

FileName(device_id) == device_id \o ".csv"

(* -------------------------------- main -------------------------------- *)

\* isQisRunning(), and startLocalQis() when it answers False.
main_startQis ==
    /\ pc = "isQisRunning"
    /\ IF qisRunning = FALSE
       THEN /\ qisRunning' = TRUE
            /\ closeQisAtEndOfTest' = TRUE
            /\ calls' = calls \o << << "isQisRunning", 0, 0 >>,
                                    << "startLocalQis", 0, 0 >> >>
       ELSE /\ UNCHANGED << qisRunning, closeQisAtEndOfTest >>
            /\ Call("isQisRunning", 0, 0)
    /\ pc' = "connect"
    /\ console' = << "Starting QIS..." >>
    /\ UNCHANGED << idx, myPowerDevices, csv_data_io, writes, last_values,
                    stream_running, thread, psdPc, psdI, psdLines,
                    stream_status, files, cachedEver >>

\* One round of the connect loop.
main_connect ==
    /\ pc = "connect"
    /\ myPowerDevices' = Append(myPowerDevices, quarchPPM)
    /\ csv_data_io' = Append(csv_data_io, StringIO)
    /\ Call("getQuarchDevice", 0, idx)
    /\ console' = << "Connected to Module: ", myDeviceIDs[idx] >>
    /\ NextRound("connect", "s_streamResampleMode")
    /\ UNCHANGED << qisRunning, closeQisAtEndOfTest, writes, last_values,
                    stream_running, thread, psdPc, psdI, psdLines,
                    stream_status, files, cachedEver >>

\* closeQis() whether or not main started the service.
main_closeQis_always ==
    /\ pc = "closeQis"
    /\ qisRunning' = FALSE
    /\ Call("closeQis", 0, 0)
    /\ pc' = "done"
    /\ UNCHANGED << idx, closeQisAtEndOfTest, myPowerDevices, csv_data_io,
                    writes, last_values, stream_running, thread, psdPc, psdI,
                    psdLines, stream_status, console, files, cachedEver >>

\* if closeQisAtEndOfTest: closeQis(), and main returns.
main_closeQis ==
    /\ pc = "closeQis"
    /\ IF closeQisAtEndOfTest
       THEN qisRunning' = FALSE /\ Call("closeQis", 0, 0)
       ELSE UNCHANGED << qisRunning, calls >>
    /\ pc' = "done"
    /\ UNCHANGED << idx, closeQisAtEndOfTest, myPowerDevices, csv_data_io,
                    writes, last_values, stream_running, thread, psdPc, psdI,
                    psdLines, stream_status, console, files, cachedEver >>

(* -------------------- the statements both examples share -------------- *)

\* modules[i].streamResampleMode(mode)
ResampleAt(at, next, ex, mode) ==
    /\ pc = at
    /\ myPowerDevices' = [myPowerDevices EXCEPT ![idx] = streamResampleMode(@, mode)]
    /\ Call("streamResampleMode", ex, idx)
    /\ console' = << "Setting QIS resampling to " \o mode \o " on module: ", myDeviceIDs[idx] >>
    /\ pc' = next
    /\ UNCHANGED << idx, qisRunning, closeQisAtEndOfTest, csv_data_io, writes,
                    last_values, stream_running, thread, psdPc, psdI, psdLines,
                    stream_status, files, cachedEver >>

\* startStream followed by the statement after the loop: the wait and the
\* stop loop run with only the first stream started.
StartAt_leaves_loop(at, again, after, ex) ==
    /\ pc = at
    /\ myPowerDevices' = [myPowerDevices EXCEPT ![idx] = startStream(@, idx, ex)]
    /\ Call("startStream", ex, idx)
    /\ console' = << "Started Recording on module: ", myDeviceIDs[idx] >>
    /\ pc' = after
    /\ idx' = 1
    /\ UNCHANGED << qisRunning, closeQisAtEndOfTest, csv_data_io, writes,
                    last_values, stream_running, thread, psdPc, psdI, psdLines,
                    stream_status, files, cachedEver >>

\* modules[i].startStream(inMemoryData=csv_data_io[i], ...), last of the round
StartAt(at, again, after, ex) ==
    /\ pc = at
    /\ myPowerDevices' = [myPowerDevices EXCEPT ![idx] = startStream(@, idx, ex)]
    /\ Call("startStream", ex, idx)
    /\ console' = << "Started Recording on module: ", myDeviceIDs[idx] >>
    /\ NextRound(again, after)
    /\ UNCHANGED << qisRunning, closeQisAtEndOfTest, csv_data_io, writes,
                    last_values, stream_running, thread, psdPc, psdI, psdLines,
                    stream_status, files, cachedEver >>

\* print("Wait for 30 seconds..."); time.sleep(30)
SleepAt(at, next, ex) ==
    /\ pc = at
    /\ Call("sleep", ex, 0)
    /\ console' = << "Wait for 30 seconds..." >>
    /\ pc' = next
    /\ UNCHANGED << idx, qisRunning, closeQisAtEndOfTest, myPowerDevices,
                    csv_data_io, writes, last_values, stream_running, thread,
                    psdPc, psdI, psdLines, stream_status, files, cachedEver >>

\* modules[i].stopStream()
StopAt(at, next, ex) ==
    /\ pc = at
    /\ csv_data_io' = Written(myPowerDevices[idx], myPowerDevices[idx].pending)
    /\ myPowerDevices' = [myPowerDevices EXCEPT ![idx] = stopStream(@)]
    /\ Call("stopStream", ex, idx)
    /\ console' = << "Stopping the stream on module: ", myDeviceIDs[idx] >>
    /\ pc' = next
    /\ UNCHANGED << idx, qisRunning, closeQisAtEndOfTest, writes, last_values,
                    stream_running, thread, psdPc, psdI, psdLines,
                    stream_status, files, cachedEver >>

\* check_stream_status: stream_status = module.streamRunningStatus()
StatusAt(at, next, ex) ==
    /\ pc = at
    /\ stream_status' \in {Str(s) : s \in StatusStrings}
    /\ Call("check_stream_status", ex, idx)
    /\ console' = << "Checking the stream is running (all data has been captured)" >>
    /\ pc' = next
    /\ UNCHANGED << idx, qisRunning, closeQisAtEndOfTest, myPowerDevices,
                    csv_data_io, writes, last_values, stream_running, thread,
                    files, cachedEver >>

\* check_stream_status: the branches on stream_status, and the return
ReportAt(at) ==
    /\ pc = at
    /\ console' = << check_stream_status(stream_status.str) >>
    /\ stream_status' = None
    /\ UNCHANGED << qisRunning, closeQisAtEndOfTest, myPowerDevices,
                    csv_data_io, writes, last_values, stream_running, thread,
                    psdPc, psdI, psdLines, files, calls, cachedEver >>

(* ---------------------- simple_multi_stream_example ------------------- *)

simple_streamResampleMode ==
    ResampleAt("s_streamResampleMode", "s_startStream", 1, "1mS")

simple_startStream ==
    StartAt("s_startStream", "s_streamResampleMode", "s_sleep", 1)

simple_sleep == SleepAt("s_sleep", "s_stopStream", 1)

simple_stopStream == StopAt("s_stopStream", "s_check_stream_status", 1)

simple_streamRunningStatus ==
    /\ StatusAt("s_check_stream_status", "s_report", 1)
    /\ UNCHANGED << psdPc, psdI, psdLines >>

simple_check_stream_status ==
    /\ ReportAt("s_report")
    /\ pc' = "s_process_qis_data"
    /\ idx' = idx

\* process_qis_data(get_device_id(myDeviceIDs[i]), csv_data_io[i])
simple_process_qis_data ==
    /\ pc = "s_process_qis_data"
    /\ LET device_id == DeviceName[idx]
           csv_file_path == FileName(device_id)
       IN  /\ csv_data_io' = [csv_data_io EXCEPT ![idx] = seek(@, 0)]
           /\ files' = DictSet(files, csv_file_path, getvalue(csv_data_io[idx]))
           /\ console' = << "QIS Stream Data Saved to CSV File: ", csv_file_path >>
    /\ Call("process_qis_data", 1, idx)
    /\ NextRound("s_stopStream", "l_streamResampleMode")
    /\ UNCHANGED << qisRunning, closeQisAtEndOfTest, myPowerDevices, writes,
                    last_values, stream_running, thread, psdPc, psdI, psdLines,
                    stream_status, cachedEver >>

simple_multi_stream_example ==
    \/ simple_streamResampleMode
    \/ simple_startStream
    \/ simple_sleep
    \/ simple_stopStream
    \/ simple_streamRunningStatus
    \/ simple_check_stream_status
    \/ simple_process_qis_data

(* ----------------- multi_device_live_monitoring_example --------------- *)

live_streamResampleMode ==
    ResampleAt("l_streamResampleMode", "l_startStream", 2, "500mS")

live_startStream ==
    StartAt("l_startStream", "l_streamResampleMode", "l_set_stream_running", 2)

\* stream_running = True
live_set_stream_running ==
    /\ pc = "l_set_stream_running"
    /\ stream_running' = TRUE
    /\ pc' = "l_thread_start"
    /\ UNCHANGED << idx, qisRunning, closeQisAtEndOfTest, myPowerDevices,
                    csv_data_io, writes, last_values, thread, psdPc, psdI,
                    psdLines, stream_status, console, files, calls, cachedEver >>

\* thread = Thread(target=read_and_print_last_values, daemon=True); thread.start()
live_thread_start ==
    /\ pc = "l_thread_start"
    /\ thread' = "while"
    /\ Call("thread.start", 2, 0)
    /\ pc' = "l_sleep"
    /\ UNCHANGED << idx, qisRunning, closeQisAtEndOfTest, myPowerDevices,
                    csv_data_io, writes, last_values, stream_running, psdPc,
                    psdI, psdLines, stream_status, console, files, cachedEver >>

live_sleep == SleepAt("l_sleep", "l_clear_stream_running", 2)

\* stream_running = False
live_clear_stream_running ==
    /\ pc = "l_clear_stream_running"
    /\ stream_running' = FALSE
    /\ pc' = "l_stopStream"
    /\ UNCHANGED << idx, qisRunning, closeQisAtEndOfTest, myPowerDevices,
                    csv_data_io, writes, last_values, thread, psdPc, psdI,
                    psdLines, stream_status, console, files, calls, cachedEver >>

live_stopStream == StopAt("l_stopStream", "l_process_stream_data", 2)

\* The call of process_stream_data() in the stop loop.
live_process_stream_data ==
    /\ pc = "l_process_stream_data"
    /\ psdPc["main"] = "idle"
    /\ psdPc' = [psdPc EXCEPT !["main"] =
                    IF Len(csv_data_io) = 0 THEN "return" ELSE "seek"]
    /\ psdI' = [psdI EXCEPT !["main"] = 1]
    /\ Call("process_stream_data", 2, idx)
    /\ UNCHANGED << pc, idx, qisRunning, closeQisAtEndOfTest, myPowerDevices,
                    csv_data_io, writes, last_values, stream_running, thread,
                    psdLines, stream_status, console, files, cachedEver >>

\* process_stream_data() has returned; check_stream_status begins.
live_streamRunningStatus ==
    /\ psdPc["main"] = "return"
    /\ StatusAt("l_process_stream_data", "l_report", 2)
    /\ psdPc' = [psdPc EXCEPT !["main"] = "idle"]
    /\ UNCHANGED << psdI, psdLines >>

live_check_stream_status ==
    /\ ReportAt("l_report")
    /\ NextRound("l_stopStream", "closeQis")

multi_device_live_monitoring_example ==
    \/ live_streamResampleMode
    \/ live_startStream
    \/ live_set_stream_running
    \/ live_thread_start
    \/ live_sleep
    \/ live_clear_stream_running
    \/ live_stopStream
    \/ live_process_stream_data
    \/ live_streamRunningStatus
    \/ live_check_stream_status

(* --------------------------- process_stream_data ---------------------- *)

\* Thread t is inside process_stream_data and has not been ended.
Inside(t) ==
    IF t = "main" THEN pc = "l_process_stream_data"
    ELSE thread = "process_stream_data"

\* csv_data_io[i].seek(0)
psd_seek(t) ==
    /\ Inside(t)
    /\ psdPc[t] = "seek"
    /\ csv_data_io' = [csv_data_io EXCEPT ![psdI[t]] = seek(@, 0)]
    /\ psdPc' = [psdPc EXCEPT ![t] = "readlines"]
    /\ UNCHANGED << pc, idx, qisRunning, closeQisAtEndOfTest, myPowerDevices,
                    writes, last_values, stream_running, thread, psdI, psdLines,
                    stream_status, console, files, calls, cachedEver >>

\* lines = csv_data_io[i].readlines()
psd_readlines(t) ==
    /\ Inside(t)
    /\ psdPc[t] = "readlines"
    /\ psdLines' = [psdLines EXCEPT ![t] = readlines(csv_data_io[psdI[t]])]
    /\ csv_data_io' = [csv_data_io EXCEPT ![psdI[t]] = seek(@, Len(@.buf))]
    /\ psdPc' = [psdPc EXCEPT ![t] = "cache"]
    /\ UNCHANGED << pc, idx, qisRunning, closeQisAtEndOfTest, myPowerDevices,
                    writes, last_values, stream_running, thread, psdI,
                    stream_status, console, files, calls, cachedEver >>

\* if lines: ... last_values[...] = last_line[j]; then the next buffer, the
\* return, or the IndexError that ends the thread.
psd_cache(t) ==
    /\ Inside(t)
    /\ psdPc[t] = "cache"
    /\ \E done \in {CacheLastLine(last_values, psdI[t], psdLines[t])},
          more \in {psdI[t] < Len(csv_data_io)} :
           /\ last_values' = done.values
           /\ cachedEver' = CacheLastLine(cachedEver, psdI[t], psdLines[t]).values
           /\ psdPc' = [psdPc EXCEPT ![t] =
                           IF done.raised THEN "raised"
                           ELSE IF more THEN "seek" ELSE "return"]
           /\ psdI' = [psdI EXCEPT ![t] =
                           IF ~done.raised /\ more THEN @ + 1 ELSE @]
           /\ psdLines' = [psdLines EXCEPT ![t] =
                           IF done.raised \/ more THEN @ ELSE << >>]
    /\ UNCHANGED << pc, idx, qisRunning, closeQisAtEndOfTest, myPowerDevices,
                    csv_data_io, writes, stream_running, thread, stream_status,
                    console, files, calls >>

process_stream_data ==
    \E t \in Threads : psd_seek(t) \/ psd_readlines(t) \/ psd_cache(t)

(* ----------------------- read_and_print_last_values ------------------- *)

\* while True: process_stream_data() ...
poll_while_true ==
    /\ thread = "while"
    /\ thread' = "process_stream_data"
    /\ psdPc' = [psdPc EXCEPT !["poll"] =
                    IF Len(csv_data_io) = 0 THEN "return" ELSE "seek"]
    /\ psdI' = [psdI EXCEPT !["poll"] = 1]
    /\ UNCHANGED << pc, idx, qisRunning, closeQisAtEndOfTest, myPowerDevices,
                    csv_data_io, writes, last_values, stream_running, psdLines,
                    stream_status, console, files, calls, cachedEver >>

\* while stream_running: process_stream_data() ...
poll_while ==
    /\ thread = "while"
    /\ IF stream_running
       THEN /\ thread' = "process_stream_data"
            /\ psdPc' = [psdPc EXCEPT !["poll"] =
                            IF Len(csv_data_io) = 0 THEN "return" ELSE "seek"]
            /\ psdI' = [psdI EXCEPT !["poll"] = 1]
       ELSE /\ thread' = "done"
            /\ UNCHANGED << psdPc, psdI >>
    /\ UNCHANGED << pc, idx, qisRunning, closeQisAtEndOfTest, myPowerDevices,
                    csv_data_io, writes, last_values, stream_running, psdLines,
                    stream_status, console, files, calls, cachedEver >>

\* process_stream_data() has returned: the values are read and printed.
poll_print ==
    /\ thread = "process_stream_data"
    /\ psdPc["poll"] = "return"
    /\ psdPc' = [psdPc EXCEPT !["poll"] = "idle"]
    /\ console' = PrintedValues(last_values)
    /\ thread' = "sleep"
    /\ UNCHANGED << pc, idx, qisRunning, closeQisAtEndOfTest, myPowerDevices,
                    csv_data_io, writes, last_values, stream_running, psdI,
                    psdLines, stream_status, files, calls, cachedEver >>

\* time.sleep(1)
poll_sleep ==
    /\ thread = "sleep"
    /\ thread' = "while"
    /\ UNCHANGED << pc, idx, qisRunning, closeQisAtEndOfTest, myPowerDevices,
                    csv_data_io, writes, last_values, stream_running, psdPc,
                    psdI, psdLines, stream_status, console, files, calls,
                    cachedEver >>

read_and_print_last_values == poll_while \/ poll_print \/ poll_sleep

\* The main thread is over: main returned, or an exception left it.
MainOver == pc = "done" \/ psdPc["main"] = "raised"

\* The polling thread is over: its loop ended, an exception left it, or the
\* interpreter ended it.
PollOver ==
    thread \in {"done", "killed"} \/ psdPc["poll"] = "raised"

\* The thread is a daemon: the interpreter ends it when the main thread is over.
daemon_exit ==
    /\ MainOver
    /\ thread # "unstarted"
    /\ ~PollOver
    /\ thread' = "killed"
    /\ UNCHANGED << pc, idx, qisRunning, closeQisAtEndOfTest, myPowerDevices,
                    csv_data_io, writes, last_values, stream_running, psdPc,
                    psdI, psdLines, stream_status, console, files, calls,
                    cachedEver >>

(* ------------------------------ the streams --------------------------- *)

\* The stream of device i writes its next line, or the rest of the line it
\* has begun.
stream_write_line(i) ==
    /\ i \in DOMAIN myPowerDevices
    /\ myPowerDevices[i].streaming
    /\ writes < MaxWrites
    /\ LET ppm == myPowerDevices[i]
           text == IF ppm.pending # "" THEN ppm.pending
                   ELSE StreamLine(ppm.example, ppm.written)
       IN  /\ csv_data_io' = Written(ppm, text)
           /\ myPowerDevices' = [myPowerDevices EXCEPT
                                    ![i].written = @ + 1, ![i].pending = ""]
    /\ writes' = writes + 1
    /\ UNCHANGED << pc, idx, qisRunning, closeQisAtEndOfTest, last_values,
                    stream_running, thread, psdPc, psdI, psdLines,
                    stream_status, console, files, calls, cachedEver >>

\* The stream of device i writes the first CutLen characters of its next line.
stream_write_piece(i) ==
    /\ i \in DOMAIN myPowerDevices
    /\ myPowerDevices[i].streaming
    /\ writes < MaxWrites
    /\ myPowerDevices[i].pending = ""
    /\ LET ppm == myPowerDevices[i]
           line == StreamLine(ppm.example, ppm.written)
       IN  /\ CutLen < Len(line)
           /\ csv_data_io' = Written(ppm, SubSeq(line, 1, CutLen))
           /\ myPowerDevices' = [myPowerDevices EXCEPT
                                    ![i].pending = From(line, CutLen + 1)]
    /\ writes' = writes + 1
    /\ UNCHANGED << pc, idx, qisRunning, closeQisAtEndOfTest, last_values,
                    stream_running, thread, psdPc, psdI, psdLines,
                    stream_status, console, files, calls, cachedEver >>

streams == \E i \in Devices : stream_write_line(i) \/ stream_write_piece(i)

(* ---------------------------- specification --------------------------- *)

main == main_startQis \/ main_connect \/ main_closeQis

Next ==
    \/ main
    \/ simple_multi_stream_example
    \/ multi_device_live_monitoring_example
    \/ process_stream_data
    \/ read_and_print_last_values
    \/ daemon_exit
    \/ streams

Spec == Init /\ [][Next]_vars

\* The polling thread's own steps.
poll_thread ==
    \/ read_and_print_last_values
    \/ psd_seek("poll") \/ psd_readlines("poll") \/ psd_cache("poll")

\* The polling thread is scheduled as long as it can take a step.
LiveSpec == Spec /\ WF_vars(poll_thread)

(* ------------------------------ call order ---------------------------- *)

\* The main thread has made the call.
Made(log, call) == \E k \in 1..Len(log) : log[k] = call

\* The call that reads device i's buffer in example ex.
ReadCall(ex, i) ==
    IF ex = 1 THEN << "process_qis_data", 1, i >>
    ELSE << "process_stream_data", 2, i >>

\* What the stated order asks of the calls made before a call.
InOrder(log, call) ==
    LET fn == call[1]
        ex == call[2]
        i == call[3]
        allStarted == \A j \in Devices : Made(log, << "startStream", ex, j >>)
    IN  CASE fn = "startStream" ->
                /\ Made(log, << "streamResampleMode", ex, i >>)
                /\ ~Made(log, call)
          [] fn = "sleep" -> allStarted
          [] fn = "stopStream" ->
                /\ allStarted
                /\ Made(log, << "sleep", ex, 0 >>)
                /\ ~Made(log, call)
          [] fn \in {"process_qis_data", "process_stream_data", "check_stream_status"} ->
                Made(log, << "stopStream", ex, i >>)
          [] OTHER -> TRUE

SetupPcs == {"isQisRunning", "connect"}

SimplePcs ==
    {"s_streamResampleMode", "s_startStream", "s_sleep", "s_stopStream",
     "s_check_stream_status", "s_report", "s_process_qis_data"}

\* "<device id with the TCP: prefix removed>.csv"
PrefixRemovedCsv(i) == From(myDeviceIDs[i], Len("TCP:") + 1) \o ".csv"

StartCall == << "startLocalQis", 0, 0 >>

CloseCall == << "closeQis", 0, 0 >>

C5_PollControlledByFlag ==
    /\ [][/\ (thread = "unstarted" /\ thread' # "unstarted") =>
                (stream_running /\ thread' = "while")
          /\ (thread = "while" /\ thread' # "while") =>
                IF stream_running
                THEN thread' \in {"process_stream_data", "killed"}
                ELSE thread' \in {"done", "killed"}
          /\ (thread = "process_stream_data" /\ thread' # thread) =>
                thread' \in {"sleep", "killed"}
          /\ (thread = "sleep" /\ thread' # thread) =>
                thread' \in {"while", "killed"}
          /\ (thread # "unstarted" /\ ~stream_running) => ~stream_running'
         ]_vars
    /\ ((thread # "unstarted" /\ ~stream_running) ~> PollOver)

\* The thread read the cleared flag and ended while main is in its stop loop,
\* after at least one full round.
C5_PollEndedByFlag ==
    /\ thread = "done"
    /\ pc = "l_stopStream"
    /\ ~stream_running
    /\ Len(console) = Len(myDeviceIDs) + 1
    /\ \E i \in Devices : console[i] # ""

(* ------------------------------ the status ---------------------------- *)

\* The outcome the status string decides.
Outcome(status) ==
    CASE ~Contains(status, "Stopped") -> "Stream ran correctly"
      [] Contains(status, "Stopped") /\ Contains(status, "Overrun") ->
            "Stream interrupted due to internal device buffer filling up"
      [] Contains(status, "Stopped") /\ ~Contains(status, "Overrun")
            /\ Contains(status, "User") -> "Stream Stopped"
      [] OTHER -> "Stopped for unknown reason"

(* C7: check_stream_status reports exactly one outcome, decided by the     *)
(* status string alone: 'ran correctly' without "Stopped"; else            *)
(* 'interrupted' with "Overrun"; else 'Stream Stopped' with "User"; else   *)
(* 'unknown reason'. It changes no state, restarts no stream, and the      *)
(* example goes on to its next statement whatever the outcome.             *)
C7_StatusDecidesOneOutcome ==
    [][/\ (pc \in {"s_report", "l_report"} /\ pc' # pc) =>
             /\ console' = << Outcome(stream_status.str) >>
             /\ UNCHANGED << myPowerDevices, csv_data_io, last_values, files,
                             stream_running, qisRunning, calls >>
             /\ pc = "s_report" => (pc' = "s_process_qis_data" /\ idx' = idx)
             /\ (pc = "l_report" /\ idx < Len(myDeviceIDs)) =>
                    (pc' = "l_stopStream" /\ idx' = idx + 1)
             /\ (pc = "l_report" /\ idx = Len(myDeviceIDs)) => pc' = "closeQis"
       /\ pc' \in {"s_report", "l_report"} /\ pc' # pc =>
             /\ stream_status' \in {Str(s) : s \in StatusStrings}
             /\ UNCHANGED << myPowerDevices, csv_data_io, last_values, files,
                             stream_running, qisRunning, idx >>
      ]_vars

\* A stream that stopped on an overrun was reported as interrupted, and
\* the live example went on to its end.
C7_OverrunReported ==
    /\ pc = "closeQis"
    /\ console = << "Stream interrupted due to internal device buffer filling up" >>

(* ------------------------------ the cache ----------------------------- *)

\* The names a caller may ask get_last_value for.
ChannelNames ==
    {ChannelName(i, Headers[j]) : i \in Devices, j \in 1..Len(Headers)}
        \cup {ChannelName(i, Channels[j]) : i \in Devices, j \in 1..Len(Channels)}

(* C8: get_last_value(name) is None if and only if no process_stream_data  *)
(* call has cached a value under name, and otherwise the value cached      *)
(* under it last; no step removes an entry of last_values, and the step    *)
(* that calls get_last_value leaves last_values as it was.                 *)
C8_GetLastValue ==
    /\ [](\A name \in ChannelNames :
             get_last_value(last_values, name) =
                IF name \in DOMAIN cachedEver THEN Str(cachedEver[name]) ELSE None)
    /\ [][/\ DOMAIN last_values \subseteq DOMAIN last_values'
          /\ (thread = "process_stream_data" /\ thread' = "sleep") =>
                last_values' = last_values
         ]_vars

\* The polling thread has printed: one channel had a cached value, another
\* had none.
C8_SomeCachedSomeNot ==
    /\ thread = "sleep"
    /\ \E i \in Devices :
          /\ get_last_value(last_values, ChannelName(i, "L1_RMS mV")) = Str("5")
          /\ get_last_value(last_values, ChannelName(i, "Tot_PApp mVA")) = None
          /\ console = PrintedValues(last_values)
          /\ console[i] = DeviceName[i] \o " L1 RMS Voltage: 5"
                             \o ", L1 RMS Current: p, Total Apparent Power: None"

(* ------------------------ what the live example caches ---------------- *)

\* The fields of the rows the simple example's streams can have written.
EarlierRowFields ==
    {RowFields(1, r)[j] : r \in 1..MaxWrites, j \in 1..Len(Headers)}

(* C2: no value that process_stream_data has cached (it runs in the live   *)
(* example only) is a field of a row that the simple example's stream left *)
(* in the buffer.                                                          *)
C2_NoValueOfEarlierStream ==
    \A name \in DOMAIN last_values : last_values[name] \notin EarlierRowFields

(* C6: the step of process_stream_data that stores the columns of buffer i *)
(* leaves, for every column with a non-empty header, field j of the last   *)
(* line read under "<device id without TCP:> <header>", creates no entry   *)
(* for an empty header, and leaves last_values alone when no line was      *)
(* read; no step of process_stream_data changes the text of a buffer.      *)
C6_CachesLastSample ==
    [][\A t \in Threads :
          /\ psdPc'[t] # psdPc[t] =>
                \A i \in DOMAIN csv_data_io :
                    csv_data_io'[i].buf = csv_data_io[i].buf
          /\ (psdPc[t] = "cache" /\ psdPc'[t] # "cache") =>
                LET i == psdI[t]
                    lines == psdLines[t]
                    headers == Split(Strip(lines[1]))
                    last_line == Split(Strip(lines[Len(lines)]))
                IN  IF lines = << >> THEN last_values' = last_values
                    ELSE /\ \A j \in 1..Len(headers) :
                               headers[j] # "" =>
                                  /\ ChannelName(i, headers[j]) \in DOMAIN last_values'
                                  /\ j <= Len(last_line)
                                  /\ last_values'[ChannelName(i, headers[j])] = last_line[j]
                         /\ ChannelName(i, "") \notin DOMAIN last_values'
      ]_vars

(* C9: process_stream_data raises in no thread, whatever the streams have  *)
(* written so far: a last line with fewer fields than the header line      *)
(* included.                                                               *)
C9_NeverRaises == \A t \in Threads : psdPc[t] # "raised"

(* C10: once the live example has returned and the polling thread is over, *)
(* for every device whose buffer begins with the header line and every     *)
(* non-empty header, last_values holds the field of the last line of the   *)
(* buffer.                                                                 *)
C10_FinalValuesCached ==
    (pc \in {"closeQis", "done"} /\ PollOver) =>
        \A i \in Devices :
            csv_data_io[i].buf # "" =>
                LET lines == SplitLines(csv_data_io[i].buf)
                    headers == Split(Strip(lines[1]))
                    last_line == Split(Strip(lines[Len(lines)]))
                IN  \A j \in 1..Len(headers) :
                        (lines[1] = HeaderLine /\ headers[j] # "") =>
                           /\ ChannelName(i, headers[j]) \in DOMAIN last_values
                           /\ j <= Len(last_line)
                           /\ last_values[ChannelName(i, headers[j])] = last_line[j]

====
